---------------------------- MODULE Spec2Model ----------------------------
(***************************************************************************)
(* Model of the newsletter mailbox monitor (src/src/main.rs): the          *)
(* reconnect loop of main, the polling cycle of run_monitor against an     *)
(* IMAP mailbox and a webhook, and the pure computations clean_body,       *)
(* extract_body, should_ignore and display_body.                           *)
(*                                                                         *)
(* Texts are sequences of one-character strings.  An Option<T> is the      *)
(* record [some, v].  A blocking call is a control point: pc = "fetch"     *)
(* means that the FETCH has been issued and its outcome is awaited.        *)
(* console holds the lines that the last step of the monitor printed.      *)
(* arg and ret are the input and the result of the computation that the    *)
(* specifications SpecClean, SpecFormat and SpecFilter apply.              *)
(***************************************************************************)
EXTENDS Integers, Sequences, FiniteSets, TLC

VARIABLES config, mailbox, nextId, pc, session, err, timer, seqs, idx, cur,
          cyc, snap, hist, payload, console, tree, result, arg, ret

vars == <<config, mailbox, nextId, pc, session, err, timer, seqs, idx, cur,
          cyc, snap, hist, payload, console, tree, result, arg, ret>>

monitorVars == <<config, mailbox, nextId, pc, session, err, timer, seqs, idx,
                 cur, cyc, snap, hist, payload, console>>


(***************************************************************************)
(* Bounds of the model.                                                    *)
(***************************************************************************)
\* Messages that arrive in the mailbox during one run.
MaxMsgs == 2
\* Nesting depth of the MIME trees given to extract_body.
MaxDepth == 1
\* Length of the texts given to clean_body.
MaxLen == 6
\* Characters that follow the filling of the bodies given to display_body.
MaxTail == 3

(***************************************************************************)
(* Options and texts.                                                      *)
(***************************************************************************)
Some(x) == [some |-> TRUE, v |-> x]
None == [some |-> FALSE, v |-> <<>>]

NL == "\n"
SP == " "
TAB == "\t"
HSpace == {SP, TAB}
WhiteSpace == {NL, SP, TAB}

\* Length of the run of characters of set S at the start of s.
RECURSIVE RunLen(_, _)
RunLen(s, S) ==
  IF s = <<>> \/ Head(s) \notin S THEN 0 ELSE 1 + RunLen(Tail(s), S)

Drop(s, n) == SubSeq(s, n + 1, Len(s))
Take(s, n) == SubSeq(s, 1, n)

\* re_newlines.replace_all(body, "\n\n") with the pattern \n{3,}.
RECURSIVE CollapseNewlines(_)
CollapseNewlines(s) ==
  IF s = <<>> THEN <<>>
  ELSE IF Head(s) = NL
       THEN LET r == RunLen(s, {NL})
            IN  (IF r >= 3 THEN <<NL, NL>> ELSE Take(s, r))
                  \o CollapseNewlines(Drop(s, r))
       ELSE <<Head(s)>> \o CollapseNewlines(Tail(s))

\* re_trailing_spaces.replace_all(body, "") with the pattern (?m)[ \t]+$ :
\* a maximal run of spaces and tabs is removed when a newline or the end of
\* the text follows it.
RECURSIVE StripTrailingSpaces(_)
StripTrailingSpaces(s) ==
  IF s = <<>> THEN <<>>
  ELSE IF Head(s) \in HSpace
       THEN LET r == RunLen(s, HSpace)
                rest == Drop(s, r)
            IN  IF rest = <<>> \/ Head(rest) = NL
                THEN StripTrailingSpaces(rest)
                ELSE Take(s, r) \o StripTrailingSpaces(rest)
       ELSE <<Head(s)>> \o StripTrailingSpaces(Tail(s))

Reverse(s) == [k \in 1..Len(s) |-> s[Len(s) + 1 - k]]

\* str::trim: leading and trailing white space removed.
Trim(s) ==
  LET a == Drop(s, RunLen(s, WhiteSpace))
  IN  Take(a, Len(a) - RunLen(Reverse(a), WhiteSpace))

clean_body(body) == Trim(StripTrailingSpaces(CollapseNewlines(body)))

(***************************************************************************)
(* Parsed messages: a tree of MIME parts.  A part is                       *)
(*   [mimetype, body, subparts]                                            *)
(* where body is the Option that get_body() yields (None: decoding fails). *)
(***************************************************************************)
Part(mt, b, subs) == [mimetype |-> mt, body |-> b, subparts |-> subs]

\* Markup tokens of the HTML texts of the model.
Tags == {"<b>", "</b>"}
\* A token on which the HTML conversion reports an error.
BadMarkup == "<!>"

RECURSIVE StripTags(_)
StripTags(s) ==
  IF s = <<>> THEN <<>>
  ELSE IF Head(s) \in Tags THEN StripTags(Tail(s))
       ELSE <<Head(s)>> \o StripTags(Tail(s))

\* html2text::from_read(html, 80): the text with the markup removed; the
\* texts of the model are shorter than the 80 columns at which it wraps.
html2text(html) ==
  IF \E k \in 1..Len(html) : html[k] = BadMarkup THEN None
  ELSE Some(StripTags(html))

\* The first Some among the results rs, in order; None when there is none.
RECURSIVE FirstSome(_)
FirstSome(rs) ==
  IF rs = <<>> THEN None
  ELSE IF Head(rs).some THEN Head(rs) ELSE FirstSome(Tail(rs))

HtmlFallback(parsed) ==
  IF parsed.mimetype = "text/html" /\ parsed.body.some
  THEN LET md == html2text(parsed.body.v)
       IN  IF md.some THEN Some(clean_body(md.v)) ELSE None
  ELSE None

RECURSIVE extract_body(_)
extract_body(parsed) ==
  IF parsed.mimetype = "text/plain"
  THEN IF parsed.body.some THEN Some(clean_body(parsed.body.v)) ELSE None
  ELSE LET sub == FirstSome([k \in 1..Len(parsed.subparts) |->
                               extract_body(parsed.subparts[k])])
       IN  IF sub.some THEN sub ELSE HtmlFallback(parsed)


(***************************************************************************)
(* Configuration (struct Config): the two optional ignore lists.  The      *)
(* server address, the credentials and the webhook URL do not influence    *)
(* the control flow and are left out.                                      *)
(***************************************************************************)
Configs ==
  { [ignored_senders |-> Some(<< <<"s", "p">> >>), ignored_subjects |-> None],
    [ignored_senders |-> None, ignored_subjects |-> Some(<< <<"H">> >>)] }

(***************************************************************************)
(* The messages that can arrive, by kind: whether mailparse::parse_mail    *)
(* accepts the bytes, the optional From and Subject headers, and the MIME  *)
(* tree.                                                                   *)
(***************************************************************************)
Kinds == {"letter", "digest", "junk"}

Raw(k) ==
  CASE k = "letter" ->
         [parses |-> TRUE, from |-> Some(<<"a", "@", "b">>),
          subject |-> Some(<<"H", "i">>),
          mime |-> Part("text/plain", Some(<<"y", SP, NL>>), <<>>)]
    [] k = "digest" ->
         [parses |-> TRUE, from |-> Some(<<"s", "p", "@", "x">>),
          subject |-> None,
          mime |-> Part("multipart/alternative", Some(<<>>),
                        << Part("text/plain", Some(<<"y">>), <<>>),
                           Part("text/html", Some(<<"<b>", "h", "</b>">>), <<>>) >>)]
    [] k = "junk" ->
         [parses |-> FALSE, from |-> None, subject |-> None,
          mime |-> Part("text/plain", None, <<>>)]

NoSubject == <<"N", "o", " ", "S", "u", "b", "j", "e", "c", "t">>
UnknownSender == <<"U", "n", "k", "n", "o", "w", "n", " ", "S", "e", "n", "d", "e", "r">>
CannotParseBody == <<"C", "a", "n", "n", "o", "t", " ", "p", "a", "r", "s", "e", " ", "b", "o", "d", "y">>
Marker == <<".", ".", ".">>

unwrap_or(opt, default) == IF opt.some THEN opt.v ELSE default

\* s.contains(p): p occurs in s as a contiguous run (the empty p always does).
Contains(s, p) ==
  \E k \in 0..(Len(s) - Len(p)) : SubSeq(s, k + 1, k + Len(p)) = p

\* list.iter().any(|s| value.contains(s))
AnyContained(list, value) == \E k \in 1..Len(list) : Contains(value, list[k])

\* Mutant: the two axes combined with "and".
should_ignore_both(cfg, from, subject) ==
  /\ IF cfg.ignored_senders.some
     THEN AnyContained(cfg.ignored_senders.v, from) ELSE FALSE
  /\ IF cfg.ignored_subjects.some
     THEN AnyContained(cfg.ignored_subjects.v, subject) ELSE FALSE

\* Mutant: a pattern has to be the whole value.
should_ignore_exact(cfg, from, subject) ==
  \/ cfg.ignored_senders.some
       /\ \E k \in 1..Len(cfg.ignored_senders.v) : cfg.ignored_senders.v[k] = from
  \/ cfg.ignored_subjects.some
       /\ \E k \in 1..Len(cfg.ignored_subjects.v) :
            cfg.ignored_subjects.v[k] = subject

should_ignore(cfg, from, subject) ==
  \/ IF cfg.ignored_senders.some
     THEN AnyContained(cfg.ignored_senders.v, from) ELSE FALSE
  \/ IF cfg.ignored_subjects.some
     THEN AnyContained(cfg.ignored_subjects.v, subject) ELSE FALSE

(***************************************************************************)
(* The description of the payload: a body of more than TruncLimit bytes is *)
(* cut at the last character boundary at or before byte TruncLimit and     *)
(* gets the marker.                                                        *)
(***************************************************************************)
TruncLimit == 1500

\* A String is UTF-8: the character U+00E9 is the two bytes C3 A9, the other
\* characters of the model are ASCII and are their own byte.
WideChars == {"U+00E9"}
Utf8(c) == IF c \in WideChars THEN <<"0xC3", "0xA9">> ELSE <<c>>
ContinuationBytes == {"0xA9"}

\* The bytes of a text, concatenated by halves so that bodies as long as
\* TruncLimit can be encoded.
RECURSIVE Encode(_)
Encode(s) ==
  IF Len(s) = 0 THEN <<>>
  ELSE IF Len(s) = 1 THEN Utf8(s[1])
  ELSE LET h == Len(s) \div 2
       IN  Encode(SubSeq(s, 1, h)) \o Encode(SubSeq(s, h + 1, Len(s)))

\* str::is_char_boundary: the start, the end, or a byte that is not a
\* continuation byte.
is_char_boundary(bytes, index) ==
  \/ index = 0
  \/ index = Len(bytes)
  \/ index < Len(bytes) /\ bytes[index + 1] \notin ContinuationBytes

\* while !body_content.is_char_boundary(end) { end -= 1; }
RECURSIVE FloorBoundary(_, _)
FloorBoundary(bytes, end) ==
  IF is_char_boundary(bytes, end) THEN end ELSE FloorBoundary(bytes, end - 1)

\* Mutant: the slice ends at TruncLimit bytes, boundary or not.
display_body_cut(body_content) ==
  IF Len(body_content) > TruncLimit
  THEN SubSeq(body_content, 1, TruncLimit) \o Encode(Marker)
  ELSE body_content

\* body_content and the result are Strings, that is byte sequences.
display_body(body_content) ==
  IF Len(body_content) > TruncLimit
  THEN SubSeq(body_content, 1, FloorBoundary(body_content, TruncLimit))
         \o Encode(Marker)
  ELSE body_content

\* The embed of the JSON payload (colour, timestamp and footer are fixed or
\* clock values and are left out).
Payload(raw) ==
  [title |-> unwrap_or(raw.subject, NoSubject),
   author |-> unwrap_or(raw.from, UnknownSender),
   description |->
     display_body(Encode(unwrap_or(extract_body(raw.mime), CannotParseBody)))]


(***************************************************************************)
(* The monitor: main's reconnect loop around run_monitor.                  *)
(*                                                                         *)
(*   mailbox   the INBOX on the server: the messages in sequence-number    *)
(*             order, each [id, kind, deleted]; the \Deleted flag is kept  *)
(*             by the server across sessions                               *)
(*   pc        the blocking call the monitor is in                         *)
(*   session   "live" from a successful login until run_monitor returns    *)
(*   err       the error run_monitor returned (the operation that failed)  *)
(*   timer     the length of the sleep the monitor is in                   *)
(*   seqs,idx  the listed sequence numbers and the position of the loop    *)
(*   cur       the message fetched and parsed in this iteration            *)
(* History:                                                                *)
(*   cyc       per message, what this cycle did with it                    *)
(*   snap      the mailbox as it was when this cycle listed it             *)
(*   hist      per message, "ignored" once it was classified as ignored    *)
(*             and "sent" once a POST built from it returned 2xx           *)
(*   payload   the payload built in this iteration                         *)
(***************************************************************************)
BackoffSecs == 10
PollSecs == 5

Ids == 1..MaxMsgs
NoCur == [id |-> 0, kind |-> "none"]
NoCyc == [id \in Ids |-> [st |-> "none", posts |-> 0]]
NoPayload == [title |-> <<>>, author |-> <<>>, description |-> <<>>]
NoTree == Part("none", None, <<>>)
Pending == [done |-> FALSE, out |-> None]
NoArg == <<>>
NoRet == <<>>

InMailbox(id) == \E k \in 1..Len(mailbox) : mailbox[k].id = id
Flagged(id) == \E k \in 1..Len(mailbox) : mailbox[k].id = id /\ mailbox[k].deleted
Arrived == 1..(nextId - 1)

\* The orders in which the set returned by search("ALL") can be iterated.
Orders(n) ==
  {f \in [1..n -> 1..n] : \A a, b \in 1..n : a # b => f[a] # f[b]}

MonitorInit ==
  /\ config \in Configs
  /\ mailbox = <<>>
  /\ nextId = 1
  /\ pc = "connect"
  /\ session = "none"
  /\ err = "none"
  /\ timer = 0
  /\ seqs = <<>>
  /\ idx = 0
  /\ cur = NoCur
  /\ cyc = NoCyc
  /\ snap = <<>>
  /\ hist = [id \in Ids |-> "none"]
  /\ payload = NoPayload
  /\ console = <<"Connecting to IMAP server">>

Init ==
  MonitorInit /\ tree = NoTree /\ result = Pending /\ arg = NoArg /\ ret = NoRet

\* A message is delivered to the INBOX by the mail server.
Arrive(k) ==
  /\ nextId <= MaxMsgs
  /\ mailbox' = Append(mailbox, [id |-> nextId, kind |-> k, deleted |-> FALSE])
  /\ nextId' = nextId + 1
  /\ UNCHANGED <<config, pc, session, err, timer, seqs, idx, cur, cyc, snap,
                 hist, payload, console, tree, result, arg, ret>>

\* Mutant: main retries at once, without the sleep.
Fail_NoSleep(op) ==
  /\ pc' = "connect"
  /\ session' = "none"
  /\ err' = op
  /\ timer' = 0
  /\ console' = <<"Connection lost or error occurred", "Retrying in 10 seconds...">>
  /\ UNCHANGED <<config, nextId, seqs, idx, cur, cyc, snap, hist, payload,
                 tree, result, arg, ret>>

\* The operator ? : run_monitor returns Err(e), its session is dropped, and
\* main reports e and sleeps.
Fail(op) ==
  /\ pc' = "backoff"
  /\ session' = "none"
  /\ err' = op
  /\ timer' = BackoffSecs
  /\ console' = <<"Connection lost or error occurred", "Retrying in 10 seconds...">>
  /\ UNCHANGED <<config, nextId, seqs, idx, cur, cyc, snap, hist, payload,
                 tree, result, arg, ret>>

\* The end of one iteration of "for seq_num in seqs"; after the last one the
\* EXPUNGE is issued.
Continue ==
  /\ idx' = idx + 1
  /\ pc' = IF idx + 1 > Len(seqs) THEN "expunge" ELSE "fetch"
  /\ cur' = NoCur
  /\ payload' = NoPayload

ConnectOk ==
  /\ pc = "connect"
  /\ pc' = "login"
  /\ console' = <<>>
  /\ UNCHANGED <<config, mailbox, nextId, session, err, timer, seqs, idx, cur,
                 cyc, snap, hist, payload, tree, result, arg, ret>>

ConnectErr == pc = "connect" /\ Fail("connect") /\ UNCHANGED mailbox

LoginOk ==
  /\ pc = "login"
  /\ session' = "live"
  /\ pc' = "select"
  /\ console' = <<"Logged in as">>
  /\ UNCHANGED <<config, mailbox, nextId, err, timer, seqs, idx, cur, cyc,
                 snap, hist, payload, tree, result, arg, ret>>

LoginErr == pc = "login" /\ Fail("login") /\ UNCHANGED mailbox

SelectOk ==
  /\ pc = "select"
  /\ pc' = "search"
  /\ console' = <<>>
  /\ UNCHANGED <<config, mailbox, nextId, session, err, timer, seqs, idx, cur,
                 cyc, snap, hist, payload, tree, result, arg, ret>>

SelectErr == pc = "select" /\ Fail("select") /\ UNCHANGED mailbox

\* search("ALL") lists every message of the mailbox, flagged or not.
SearchOk ==
  /\ pc = "search"
  /\ \E order \in Orders(Len(mailbox)) : seqs' = order
  /\ snap' = mailbox
  /\ cyc' = NoCyc
  /\ cur' = NoCur
  /\ IF Len(mailbox) = 0
     THEN pc' = "sleep" /\ timer' = PollSecs /\ idx' = 0
     ELSE pc' = "fetch" /\ timer' = timer /\ idx' = 1
  /\ console' = IF Len(mailbox) = 0 THEN <<>> ELSE <<"Found messages">>
  /\ UNCHANGED <<config, mailbox, nextId, session, err, hist, payload, tree,
                 result, arg, ret>>

SearchErr == pc = "search" /\ Fail("search") /\ UNCHANGED mailbox

FetchErr == pc = "fetch" /\ Fail("fetch") /\ UNCHANGED mailbox

\* The FETCH succeeds and returns no item: the iteration does nothing.
FetchEmpty ==
  /\ pc = "fetch"
  /\ cyc' = [cyc EXCEPT ![mailbox[seqs[idx]].id].st = "empty"]
  /\ Continue
  /\ console' = <<>>
  /\ UNCHANGED <<config, mailbox, nextId, session, err, timer, seqs, snap,
                 hist, tree, result, arg, ret>>

\* mailparse::parse_mail(body)? fails.
FetchParseErr ==
  /\ pc = "fetch"
  /\ ~Raw(mailbox[seqs[idx]].kind).parses
  /\ Fail("parse")
  /\ UNCHANGED mailbox

\* The fetched message is parsed and classified as ignored: the STORE is issued.
FetchIgnored ==
  /\ pc = "fetch"
  /\ LET m == mailbox[seqs[idx]]
         raw == Raw(m.kind)
     IN  /\ raw.parses
         /\ should_ignore(config, unwrap_or(raw.from, UnknownSender),
                          unwrap_or(raw.subject, NoSubject))
         /\ cur' = [id |-> m.id, kind |-> m.kind]
         /\ cyc' = [cyc EXCEPT ![m.id].st = "ignored"]
         /\ hist' = [hist EXCEPT ![m.id] = "ignored"]
  /\ pc' = "store"
  /\ console' = <<"Ignored email from">>
  /\ UNCHANGED <<config, mailbox, nextId, session, err, timer, seqs, idx,
                 snap, payload, tree, result, arg, ret>>

\* The fetched message is parsed and kept: the payload is built and POSTed.
FetchKeep ==
  /\ pc = "fetch"
  /\ LET m == mailbox[seqs[idx]]
         raw == Raw(m.kind)
     IN  /\ raw.parses
         /\ ~should_ignore(config, unwrap_or(raw.from, UnknownSender),
                           unwrap_or(raw.subject, NoSubject))
         /\ cur' = [id |-> m.id, kind |-> m.kind]
         /\ cyc' = [cyc EXCEPT ![m.id].posts = @ + 1]
         /\ payload' = Payload(raw)
  /\ pc' = "post"
  /\ console' = <<"Processing email">>
  /\ UNCHANGED <<config, mailbox, nextId, session, err, timer, seqs, idx,
                 snap, hist, tree, result, arg, ret>>

\* Ok(response) with a success status: the STORE is issued.
Post2xx ==
  /\ pc = "post"
  /\ hist' = [hist EXCEPT ![cur.id] = "sent"]
  /\ cyc' = [cyc EXCEPT ![cur.id].st = "sent"]
  /\ pc' = "store"
  /\ console' = <<"Sent to Discord. Deleting email...">>
  /\ UNCHANGED <<config, mailbox, nextId, session, err, timer, seqs, idx, cur,
                 snap, payload, tree, result, arg, ret>>

\* Mutant: the status of the response is not looked at.
PostStatus_Deletes ==
  /\ pc = "post"
  /\ cyc' = [cyc EXCEPT ![cur.id].st = "status"]
  /\ pc' = "store"
  /\ console' = <<"Failed to send to Discord: Status">>
  /\ UNCHANGED <<config, mailbox, nextId, session, err, timer, seqs, idx, cur,
                 snap, hist, payload, tree, result, arg, ret>>

\* Ok(response) with another status.
PostStatus ==
  /\ pc = "post"
  /\ cyc' = [cyc EXCEPT ![cur.id].st = "status"]
  /\ Continue
  /\ console' = <<"Failed to send to Discord: Status">>
  /\ UNCHANGED <<config, mailbox, nextId, session, err, timer, seqs, snap,
                 hist, tree, result, arg, ret>>

\* Err(e): the request was not answered.
PostTransport ==
  /\ pc = "post"
  /\ cyc' = [cyc EXCEPT ![cur.id].st = "transport"]
  /\ Continue
  /\ console' = <<"Failed to send request to Discord">>
  /\ UNCHANGED <<config, mailbox, nextId, session, err, timer, seqs, snap,
                 hist, tree, result, arg, ret>>

\* Mutant: the STORE names the position in the loop, not the sequence number.
StoreOk_ByIndex ==
  /\ pc = "store"
  /\ mailbox' = [mailbox EXCEPT ![idx].deleted = TRUE]
  /\ Continue
  /\ console' = <<>>
  /\ UNCHANGED <<config, nextId, session, err, timer, seqs, cyc, snap, hist,
                 tree, result, arg, ret>>

\* store(seq_num, "+FLAGS (\Deleted)") flags the message at seq_num.
StoreOk ==
  /\ pc = "store"
  /\ mailbox' = [mailbox EXCEPT ![seqs[idx]].deleted = TRUE]
  /\ Continue
  /\ console' = <<>>
  /\ UNCHANGED <<config, nextId, session, err, timer, seqs, cyc, snap, hist,
                 tree, result, arg, ret>>

\* The STORE fails; the connection may have been lost before or after the
\* server set the flag.
StoreErr ==
  /\ pc = "store"
  /\ \E applied \in BOOLEAN :
       mailbox' = IF applied THEN [mailbox EXCEPT ![seqs[idx]].deleted = TRUE]
                  ELSE mailbox
  /\ Fail("store")

NotDeleted(m) == ~m.deleted

\* expunge() removes every message flagged \Deleted; then the poll sleep.
ExpungeOk ==
  /\ pc = "expunge"
  /\ mailbox' = SelectSeq(mailbox, NotDeleted)
  /\ pc' = "sleep"
  /\ timer' = PollSecs
  /\ console' = <<>>
  /\ UNCHANGED <<config, nextId, session, err, seqs, idx, cur, cyc, snap,
                 hist, payload, tree, result, arg, ret>>

\* The EXPUNGE fails; the connection may have been lost before or after the
\* server removed the flagged messages.
ExpungeErr ==
  /\ pc = "expunge"
  /\ \E applied \in BOOLEAN :
       mailbox' = IF applied THEN SelectSeq(mailbox, NotDeleted) ELSE mailbox
  /\ Fail("expunge")

\* thread::sleep(5 s) ends; the next cycle selects the INBOX again.
Sleep ==
  /\ pc = "sleep"
  /\ pc' = "select"
  /\ timer' = 0
  /\ console' = <<>>
  /\ UNCHANGED <<config, mailbox, nextId, session, err, seqs, idx, cur, cyc,
                 snap, hist, payload, tree, result, arg, ret>>

\* Mutant: a failed login ends the loop.
Backoff_AuthFatal ==
  /\ pc = "backoff"
  /\ err # "login"
  /\ pc' = "connect"
  /\ timer' = 0
  /\ err' = "none"
  /\ seqs' = <<>>
  /\ idx' = 0
  /\ cur' = NoCur
  /\ cyc' = NoCyc
  /\ snap' = <<>>
  /\ payload' = NoPayload
  /\ console' = <<"Connecting to IMAP server">>
  /\ UNCHANGED <<config, mailbox, nextId, session, hist, tree, result, arg,
                 ret>>

\* thread::sleep(10 s) ends; main's loop calls run_monitor, which connects.
Backoff ==
  /\ pc = "backoff"
  /\ pc' = "connect"
  /\ timer' = 0
  /\ err' = "none"
  /\ seqs' = <<>>
  /\ idx' = 0
  /\ cur' = NoCur
  /\ cyc' = NoCyc
  /\ snap' = <<>>
  /\ payload' = NoPayload
  /\ console' = <<"Connecting to IMAP server">>
  /\ UNCHANGED <<config, mailbox, nextId, session, hist, tree, result, arg,
                 ret>>

Monitor ==
  \/ ConnectOk \/ ConnectErr
  \/ LoginOk \/ LoginErr
  \/ SelectOk \/ SelectErr
  \/ SearchOk \/ SearchErr
  \/ FetchErr \/ FetchEmpty \/ FetchParseErr \/ FetchIgnored \/ FetchKeep
  \/ Post2xx \/ PostStatus \/ PostTransport
  \/ StoreOk \/ StoreErr
  \/ ExpungeOk \/ ExpungeErr
  \/ Sleep
  \/ Backoff

Next ==
  \/ \E k \in Kinds : Arrive(k)
  \/ Monitor

Spec == Init /\ [][Next]_vars

\* The scheduling of the monitor: it is one thread that is never blocked for
\* ever (every call returns or times out, every sleep ends).
FairSpec == Spec /\ WF_vars(Monitor)

\* The monitor on a server that accepts every connection and command and a
\* webhook that returns 2xx to every request: the only failure left is the
\* message that cannot be parsed.
ReliableMonitor ==
  \/ ConnectOk \/ LoginOk \/ SelectOk \/ SearchOk
  \/ FetchParseErr \/ FetchIgnored \/ FetchKeep
  \/ Post2xx \/ StoreOk \/ ExpungeOk
  \/ Sleep \/ Backoff

NextReliable ==
  \/ \E k \in Kinds : Arrive(k)
  \/ ReliableMonitor

\* The thread of the monitor is never blocked for ever (as in FairSpec); the
\* steps it takes here are those of ReliableMonitor.
ReliableSpec == Init /\ [][NextReliable]_vars /\ WF_vars(Monitor)

(***************************************************************************)
(* The monitor on a mailbox that another mail client uses at the same      *)
(* time: that client marks messages for deletion (it sets \Deleted and     *)
(* leaves the EXPUNGE for later), so the sequence numbers of the session   *)
(* of the monitor stay valid.                                              *)
(***************************************************************************)
OtherStore(pos) ==
  /\ pos \in 1..Len(mailbox)
  /\ ~mailbox[pos].deleted
  /\ mailbox' = [mailbox EXCEPT ![pos].deleted = TRUE]
  /\ UNCHANGED <<config, nextId, pc, session, err, timer, seqs, idx, cur, cyc,
                 snap, hist, payload, console, tree, result, arg, ret>>

NextShared ==
  \/ Next
  \/ \E pos \in 1..MaxMsgs : OtherStore(pos)

SpecShared == Init /\ [][NextShared]_vars

(***************************************************************************)
(* extract_body applied to the MIME trees of up to MaxDepth levels of      *)
(* nesting, with one or two parts in a multipart node.                     *)
(***************************************************************************)
PlainBodies == {Some(<<"p", SP>>), Some(<<>>), None}
HtmlBodies == {Some(<<"<b>", "h", "</b>">>), Some(<<BadMarkup>>)}

Leaves ==
  {Part("text/plain", b, <<>>) : b \in PlainBodies}
    \cup {Part("text/html", b, <<>>) : b \in HtmlBodies}
    \cup {Part("image/png", Some(<<"i">>), <<>>)}

Containers == {"multipart/alternative", "multipart/mixed"}

RECURSIVE Trees(_)
Trees(d) ==
  IF d = 0 THEN Leaves
  ELSE LET sub == Trees(d - 1)
       IN  Leaves \cup
           {Part(c, Some(<<>>), ch) :
              c \in Containers,
              ch \in {<<a>> : a \in sub} \cup {<<a, b>> : a \in sub, b \in sub}}

ExtractInit ==
  /\ MonitorInit
  /\ tree \in Trees(MaxDepth)
  /\ result = Pending
  /\ arg = NoArg
  /\ ret = NoRet

Extract ==
  /\ ~result.done
  /\ result' = [done |-> TRUE, out |-> extract_body(tree)]
  /\ UNCHANGED <<monitorVars, tree, arg, ret>>

SpecExtract == ExtractInit /\ [][Extract]_vars

(***************************************************************************)
(* clean_body applied once and then again to the texts of up to MaxLen     *)
(* characters over newline, space, tab and one other character.            *)
(***************************************************************************)
TextChars == {NL, SP, TAB, "x"}
Texts == UNION {[1..n -> TextChars] : n \in 0..MaxLen}

CleanInit ==
  /\ MonitorInit
  /\ tree = NoTree
  /\ result = Pending
  /\ arg \in Texts
  /\ ret = <<>>

\* ret holds clean_body(arg) and then clean_body(clean_body(arg)).
Clean ==
  /\ arg \in Texts
  /\ Len(ret) < 2
  /\ ret' = Append(ret, clean_body(IF ret = <<>> THEN arg ELSE ret[Len(ret)]))
  /\ UNCHANGED <<monitorVars, tree, result, arg>>

SpecClean == CleanInit /\ [][Clean]_vars

(***************************************************************************)
(* display_body applied to bodies around the limit: a filling of one       *)
(* repeated character, one or two bytes wide, that ends near TruncLimit    *)
(* bytes or TruncLimit characters, followed by up to MaxTail characters.   *)
(***************************************************************************)
BodyChars == {"a", "U+00E9"}
Repeat(c, n) == [i \in 1..n |-> c]
Fills ==
  {n \in 0..TruncLimit :
     \/ TruncLimit - n \in 0..2
     \/ TruncLimit - 2 * n \in 0..3}
Tails == UNION {[1..n -> BodyChars] : n \in 0..MaxTail}
Bodies == {Repeat(c, n) \o t : c \in BodyChars, n \in Fills, t \in Tails}

FormatInit ==
  /\ MonitorInit
  /\ tree = NoTree
  /\ result = Pending
  /\ arg \in Bodies
  /\ ret = None

\* ret holds the description built from the body arg.
Format ==
  /\ arg \in Bodies
  /\ ret = None
  /\ ret' = Some(display_body(Encode(arg)))
  /\ UNCHANGED <<monitorVars, tree, result, arg>>

SpecFormat == FormatInit /\ [][Format]_vars

(***************************************************************************)
(* should_ignore applied to the header values of a parsed message: From    *)
(* and Subject headers that are absent or hold up to two letters, and      *)
(* ignore lists that are absent or hold up to two patterns.                *)
(***************************************************************************)
HeaderChars == {"a", "A"}
Headers ==
  {None} \cup {Some(h) : h \in UNION {[1..n -> HeaderChars] : n \in 0..2}}
Patterns == {<<>>, <<"a">>, <<"a", "A">>, <<"S">>}
Lists ==
  {None} \cup {Some(l) : l \in UNION {[1..n -> Patterns] : n \in 0..2}}

FilterInit ==
  /\ MonitorInit
  /\ tree = NoTree
  /\ result = Pending
  /\ arg \in [from : Headers, subject : Headers,
               cfg : [ignored_senders : Lists, ignored_subjects : Lists]]
  /\ ret = None

\* ret holds the classification of the message with the headers arg.from
\* and arg.subject under the configuration arg.cfg.
Classify ==
  /\ DOMAIN arg = {"from", "subject", "cfg"}
  /\ ret = None
  /\ ret' = Some(should_ignore(arg.cfg, unwrap_or(arg.from, UnknownSender),
                               unwrap_or(arg.subject, NoSubject)))
  /\ UNCHANGED <<monitorVars, tree, result, arg>>

SpecFilter == FilterInit /\ [][Classify]_vars

(***************************************************************************)
(* Properties.                                                             *)
(***************************************************************************)
\* The operations issued on the session of run_monitor.
SessionOps == {"select", "search", "fetch", "store", "expunge"}
\* A POST for this message failed in this cycle.
PostFailed(id) == cyc[id].st \in {"status", "transport"}
\* Some listed pattern is contained in the header value (an absent list or an
\* absent header matches nothing).
Matches(list, header) ==
  list.some /\ header.some
    /\ \E k \in 1..Len(list.v) : Contains(header.v, list.v[k])
\* The reference classification of a message of kind k.
Ignorable(k) ==
  \/ Matches(config.ignored_senders, Raw(k).from)
  \/ Matches(config.ignored_subjects, Raw(k).subject)

\* C1: a message is flagged \Deleted or gone from the mailbox only if it was
\* classified as ignored or a POST built from it returned 2xx before; and a
\* STORE is in flight only for the message fetched, parsed and classified in
\* this iteration, with one of these two outcomes.
C1_DeleteOnlyHandled ==
  /\ \A id \in Arrived :
       (Flagged(id) \/ ~InMailbox(id)) => hist[id] \in {"ignored", "sent"}
  /\ pc = "store" =>
       /\ mailbox[seqs[idx]].id = cur.id
       /\ cyc[cur.id].st \in {"ignored", "sent"}
       /\ hist[cur.id] = cyc[cur.id].st

\* A cycle has ended in which one message was delivered and expunged and the
\* POST of another one failed.
C1_Witness ==
  /\ pc = "sleep"
  /\ \E a, b \in Arrived :
       /\ hist[a] = "sent" /\ ~InMailbox(a)
       /\ PostFailed(b) /\ hist[b] = "none" /\ InMailbox(b)

\* C2: after a cycle (the EXPUNGE has succeeded), every message whose POST in
\* that cycle returned 2xx is gone and every message whose POST failed in that
\* cycle is still in the mailbox.
C2_DeletedIffDelivered ==
  pc = "sleep" =>
    \A id \in Arrived :
      /\ cyc[id].st = "sent" => ~InMailbox(id)
      /\ PostFailed(id) => InMailbox(id)

\* C3: no POST is ever in flight for a message that matches an ignore list;
\* such a message, once fetched and parsed, is classified as ignored and its
\* STORE is issued, and after the cycle it is gone from the mailbox.
C3_IgnoredNeverPosted ==
  /\ pc = "post" => ~Ignorable(cur.kind)
  /\ pc = "store" => (cyc[cur.id].st = "ignored" <=> Ignorable(cur.kind))
  /\ pc = "sleep" =>
       \A id \in Arrived : cyc[id].st = "ignored" => ~InMailbox(id)

\* A cycle has ended in which a message was classified as ignored.
C3_Witness ==
  /\ pc = "sleep"
  /\ \E id \in Arrived :
       cyc[id].st = "ignored" /\ hist[id] = "ignored" /\ ~InMailbox(id)

\* C4: no POST is issued for a message for which an earlier POST returned 2xx.
C4_NoRepost == pc = "post" => hist[cur.id] # "sent"

\* C5: a failure to fetch or to parse one message does not end run_monitor:
\* the monitor is never in the reconnect backoff because of one.
C5_MessageErrorsContained ==
  ~(pc = "backoff" /\ session = "none" /\ err \in {"fetch", "parse"})

\* After a failure of connect, login or a session operation the monitor is
\* in the 10 s backoff with the session discarded; a connect is attempted only
\* when that sleep ends; a session operation, a POST or the poll sleep only
\* happens on a session that a login has made live since.
C6_Inv ==
  /\ err # "none" => pc = "backoff" /\ session = "none" /\ timer = BackoffSecs
  /\ pc = "backoff" => err \in SessionOps \cup {"connect", "login", "parse"}
  /\ pc \in SessionOps \cup {"post", "sleep"} => session = "live"
  /\ pc \in {"connect", "login"} => session = "none"

C6_Step ==
  /\ (pc' = "connect" /\ pc # "connect") =>
       pc = "backoff" /\ timer = BackoffSecs /\ session = "none"
  /\ (session' = "live" /\ session # "live") => pc = "login"
  /\ (pc' = "login" /\ pc # "login") => pc = "connect"
  /\ (session = "live" /\ session' # "live") => pc' = "backoff"

\* C6: the state conditions hold in every state and the step conditions of
\* every step.
C6_FailureDisconnects == []C6_Inv /\ [][C6_Step]_vars

\* A session operation of a live session has failed.
C6_Witness ==
  pc = "backoff" /\ session = "none" /\ err \in SessionOps
    /\ timer = BackoffSecs /\ seqs # <<>>

\* C7: when the FETCH of the idx-th listed message has failed, the session is
\* discarded and the monitor is in the backoff; that message and the ones
\* listed after it are as the cycle found them, and no message that the cycle
\* listed has been removed.
C7_NoPartialDeletion ==
  (pc = "backoff" /\ err = "fetch") =>
    /\ session = "none" /\ timer = BackoffSecs
    /\ Len(mailbox) >= Len(snap)
    /\ \A k \in 1..Len(snap) : mailbox[k].id = snap[k].id
    /\ \A j \in idx..Len(seqs) : mailbox[seqs[j]] = snap[seqs[j]]

\* The FETCH of the second listed message failed after the first one had been
\* flagged in this cycle.
C7_Witness ==
  /\ pc = "backoff" /\ err = "fetch"
  /\ idx = 2 /\ Len(seqs) = 2
  /\ mailbox[seqs[1]].deleted /\ ~snap[seqs[1]].deleted

\* C8: within a cycle at most one POST is issued for a message; a message
\* whose POST failed (either way) is not flagged by this cycle, and it is in
\* the mailbox after the cycle, where the next cycle lists it again.
C8_FailureKeepsMessage ==
  \A id \in Arrived :
    /\ cyc[id].posts <= 1
    /\ (PostFailed(id) /\ pc \in SessionOps \cup {"post", "sleep"}) =>
         /\ InMailbox(id)
         /\ Flagged(id) =>
              \E k \in 1..Len(snap) : snap[k].id = id /\ snap[k].deleted

\* The monitor is about to attempt a connect.
ConnectAttempt == pc = "connect" /\ err = "none"

\* C9 as amended: after a failure that ends run_monitor (connect, login,
\* select, search, fetch, parse, store, expunge) the monitor eventually
\* attempts a connect again.
C9_ReconnectsAfterError ==
  (err \in SessionOps \cup {"connect", "login", "parse"}) ~> ConnectAttempt

\* C9 as stated: a connect attempt also follows a delivery failure.
C9_ReconnectsAfterAnyFailure ==
  (err # "none" \/ \E id \in Ids : PostFailed(id)) ~> ConnectAttempt

\* A connect is attempted by a monitor that has had a live session before.
C9_Witness ==
  ConnectAttempt /\ \E id \in Arrived : hist[id] # "none"

\* The parts of mimetype mt in the tree t, the root included.
RECURSIVE PartsOf(_, _)
PartsOf(t, mt) ==
  (IF t.mimetype = mt THEN {t} ELSE {})
    \cup UNION {PartsOf(t.subparts[k], mt) : k \in 1..Len(t.subparts)}

\* C10: for a multipart tree that holds an HTML part and plain-text parts
\* (each with a decodable, non-empty body), in any order and at any depth,
\* extract_body returns the normalized content of one of the plain-text parts.
C10_PlainPreferred ==
  LET plain == PartsOf(tree, "text/plain")
  IN  (/\ result.done
       /\ tree.subparts # <<>>
       /\ plain # {}
       /\ \A q \in plain : q.body.some /\ clean_body(q.body.v) # <<>>
       /\ PartsOf(tree, "text/html") # {})
      => /\ result.out.some
         /\ \E q \in plain : result.out.v = clean_body(q.body.v)


\* A run of three or more newlines.
HasNewlineRun(t) ==
  \E i \in 1..(Len(t) - 2) : t[i] = NL /\ t[i + 1] = NL /\ t[i + 2] = NL
\* A line that ends in a space or a tab.
HasTrailingSpace(t) ==
  \E i \in 1..Len(t) : t[i] \in HSpace /\ (i = Len(t) \/ t[i + 1] = NL)

\* C11: the text returned by clean_body has no run of three or more newlines
\* and no line that ends in a space or a tab, and clean_body applied to it
\* returns it unchanged.
C11_CleanIdempotent ==
  /\ Len(ret) >= 1 => ~HasNewlineRun(ret[1]) /\ ~HasTrailingSpace(ret[1])
  /\ Len(ret) = 2 => ret[2] = ret[1]


\* The number of characters of a byte string: its bytes that start one.
CharCount(bytes) ==
  Cardinality({i \in 1..Len(bytes) : bytes[i] \notin ContinuationBytes})

\* C12: for a body of more than 1500 characters the description ends with the
\* marker "...", and what precedes the marker is the encoding of a prefix of
\* the body of at most 1500 whole characters.
C12_TruncatedShape ==
  (ret.some /\ Len(arg) > TruncLimit) =>
    LET d == ret.v
        kept == SubSeq(d, 1, Len(d) - Len(Marker))
        k == CharCount(kept)
    IN  /\ Len(d) >= Len(Marker)
        /\ SubSeq(d, Len(d) - Len(Marker) + 1, Len(d)) = Marker
        /\ k <= TruncLimit
        /\ k <= Len(arg)
        /\ kept = Encode(SubSeq(arg, 1, k))

\* A body of more than 1500 characters was formatted whose byte 1500 is not
\* a character boundary.
C12_Witness ==
  /\ ret.some
  /\ Len(arg) > TruncLimit
  /\ ~is_char_boundary(Encode(arg), TruncLimit)

\* C13: a body of at most 1500 characters is the description, unchanged and
\* without the marker, whatever its length in bytes; a longer body gives its
\* first 1500 characters followed by the marker.
C13_TruncatesByCharacters ==
  ret.some =>
    ret.v = IF Len(arg) > TruncLimit
            THEN Encode(SubSeq(arg, 1, TruncLimit)) \o Marker
            ELSE Encode(arg)


\* p occurs in v, letter for letter.
IsSubstring(p, v) ==
  \E i \in 0..Len(v) :
    i + Len(p) <= Len(v) /\ \A j \in 1..Len(p) : v[i + j] = p[j]
\* The list is present and one of its patterns occurs in the value.
ListHit(list, v) ==
  list.some /\ \E k \in DOMAIN list.v : IsSubstring(list.v[k], v)
\* The list is absent or empty.
NoPatterns(list) == ~list.some \/ list.v = <<>>

\* C14: a message is ignored exactly when the senders list is present and one
\* of its patterns is a case-sensitive substring of the From value, or the
\* subjects list is present and one of its patterns is a substring of the
\* Subject value (the placeholder when the header is missing); an absent or
\* empty list ignores nothing, and with both lists absent or empty the
\* message is kept.
C14_ReferenceClassification ==
  ret.some =>
    LET fromValue ==
          IF arg.from.some THEN arg.from.v
          ELSE <<"U", "n", "k", "n", "o", "w", "n", " ",
                 "S", "e", "n", "d", "e", "r">>
        subjectValue ==
          IF arg.subject.some THEN arg.subject.v
          ELSE <<"N", "o", " ", "S", "u", "b", "j", "e", "c", "t">>
        bySender == ListHit(arg.cfg.ignored_senders, fromValue)
        bySubject == ListHit(arg.cfg.ignored_subjects, subjectValue)
    IN  /\ ret.v = (bySender \/ bySubject)
        /\ NoPatterns(arg.cfg.ignored_senders) => ret.v = bySubject
        /\ NoPatterns(arg.cfg.ignored_subjects) => ret.v = bySender
        /\ (NoPatterns(arg.cfg.ignored_senders)
              /\ NoPatterns(arg.cfg.ignored_subjects)) => ~ret.v

\* A message was ignored by the second pattern of the subjects list alone,
\* the senders list being absent.
C14_Witness ==
  /\ ret.some
  /\ ret.v
  /\ ~arg.cfg.ignored_senders.some
  /\ arg.subject.some
  /\ Len(arg.cfg.ignored_subjects.v) = 2
  /\ ~IsSubstring(arg.cfg.ignored_subjects.v[1], arg.subject.v)


\* The Subject and From values of a message of kind k: the header, or the
\* placeholder when the header is missing.
SubjectValue(k) ==
  IF Raw(k).subject.some THEN Raw(k).subject.v
  ELSE <<"N", "o", " ", "S", "u", "b", "j", "e", "c", "t">>
FromValue(k) ==
  IF Raw(k).from.some THEN Raw(k).from.v
  ELSE <<"U", "n", "k", "n", "o", "w", "n", " ", "S", "e", "n", "d", "e", "r">>
\* The message listed at position j of this cycle.
Listed(j) == snap[seqs[j]]
\* The cycle is over and none of its mailbox operations failed: the EXPUNGE
\* has succeeded, or run_monitor has returned for another reason.
CycleOverUnfailed ==
  /\ seqs # <<>>
  /\ pc = "sleep" \/ (pc = "backoff" /\ err \notin SessionOps)
  /\ \A id \in Ids : cyc[id].st # "empty"

\* C15: in a cycle in which no mailbox operation fails, a POST carries the
\* Subject value and the From value of the message being processed, no message
\* listed later has been POSTed before it, every listed message that can be
\* parsed and is not ignored has caused exactly one POST when the cycle is
\* over, and every message whose POST returned 2xx is absent after the
\* EXPUNGE.
C15_CycleDelivers ==
  /\ pc = "post" =>
       /\ Listed(idx).id = cur.id
       /\ payload.title = SubjectValue(cur.kind)
       /\ payload.author = FromValue(cur.kind)
       /\ cyc[cur.id].posts = 1
       /\ \A j \in (idx + 1)..Len(seqs) : cyc[Listed(j).id].posts = 0
  /\ CycleOverUnfailed =>
       \A j \in 1..Len(seqs) :
         (Raw(Listed(j).kind).parses /\ ~Ignorable(Listed(j).kind)) =>
           cyc[Listed(j).id].posts = 1
  /\ pc = "sleep" =>
       \A j \in 1..Len(seqs) :
         cyc[Listed(j).id].st = "sent" => ~InMailbox(Listed(j).id)


\* C16: on a mailbox that other clients modify, a message is gone from the
\* mailbox only if the monitor classified it as ignored or delivered it, and
\* the monitor issues a STORE only for the message it fetched in this
\* iteration and classified as ignored or delivered.
C16_OnlyOwnMessagesRemoved ==
  /\ \A id \in Arrived : ~InMailbox(id) => hist[id] \in {"ignored", "sent"}
  /\ pc = "store" =>
       /\ mailbox[seqs[idx]].id = cur.id
       /\ hist[cur.id] \in {"ignored", "sent"}


\* A text was found and it is not empty.
NonEmptyText(o) == o.some /\ o.v # <<>>

\* C17: for a node that is not plain text and has children of which one
\* yields a non-empty text, extract_body returns what the first such child
\* yields: children that yield nothing or an empty text are passed over.
C17_FirstNonEmptyChild ==
  (result.done /\ tree.mimetype # "text/plain" /\ tree.subparts # <<>>) =>
    LET outs == [k \in DOMAIN tree.subparts |-> extract_body(tree.subparts[k])]
        hits == {k \in DOMAIN outs : NonEmptyText(outs[k])}
    IN  hits # {} =>
          result.out = outs[CHOOSE k \in hits : \A j \in hits : k <= j]


\* The iteration of the message listed just before position idx has ended
\* in a failure: its FETCH returned no item or its POST failed.
IterationFailed ==
  /\ pc \in {"fetch", "expunge"}
  /\ idx > 1
  /\ cyc[Listed(idx - 1).id].st \in {"empty", "status", "transport"}

\* C18: the step that handles a failure writes at least one line to the
\* console: the failures that end run_monitor (connect, login, a session
\* operation, parse) and the failures after which the loop goes on (a FETCH
\* without an item, a POST that fails or returns another status than 2xx).
C18_FailuresReported ==
  /\ pc = "backoff" => console # <<>>
  /\ IterationFailed => console # <<>>


\* The kind of the message id, which is in the mailbox.
KindOf(id) ==
  mailbox[CHOOSE pos \in 1..Len(mailbox) : mailbox[pos].id = id].kind
\* The message id is in the mailbox and can be parsed.
Processable(id) == InMailbox(id) /\ Raw(KindOf(id)).parses

\* C19: on a server and a webhook that accept, every message of the mailbox
\* that can be parsed is removed at some time, after it was classified as
\* ignored or delivered, whatever else is in the mailbox.
C19_EveryMessageProgresses ==
  \A id \in Ids :
    Processable(id) ~> (~InMailbox(id) /\ hist[id] \in {"ignored", "sent"})

====
